---------------------------- MODULE Spec2Model ----------------------------
(***************************************************************************)
(* A model of the two command-line tools of aws-network-routing-project:   *)
(*   python/route_manager.py     the route table manager                   *)
(*   python/firewall_manager.py  the network firewall manager              *)
(* One run of a tool is one pass through its main(): construct the         *)
(* manager, load the configuration, validate it, apply it.  The provider   *)
(* (the boto3 clients) is the environment: it answers every call, and may  *)
(* reject any mutating call.                                               *)
(***************************************************************************)
EXTENDS Integers, Sequences, FiniteSets, TLC

VARIABLES
    tool,                  \* which script runs: "route" or "firewall"
    args,                  \* the parsed command line
    credentials,           \* whether the client constructor finds credentials
    config_file,           \* "ok", "missing" or "malformed": what open/yaml/pydantic meet
    config,                \* the configuration the file holds (route_tables or policies)
    remote,                \* the provider's state: route tables, policies, rule groups
    pc,                    \* the position of the run in main()
    exit_code,             \* -1 while running, then the process exit status
    i,                     \* index of the group (route table, policy) in progress
    j,                     \* index of the item (route, rule) in progress
    route_table,           \* update_route_table's fetched table (its id), or None
    existing_destinations, \* update_route_table's set of fetched destinations
    rule_groups,           \* _convert_rules_to_aws_format's list of references
    success_count,         \* main's / apply_configuration's count of groups
    routes_success_count,  \* update_route_table's count of routes
    calls,                 \* every call the run made to the provider, in order
    console,               \* the status lines the run printed, in order
    run,                   \* which invocation of the tool this is (1, 2, ...)
    remote_at_start,       \* the provider's state when this invocation began
    previous,              \* <<>>, or <<how the invocation before this one went>>
    firewall_rule,         \* the FirewallRule handed to _convert_rule_to_suricata
    suricata_rule          \* what _convert_rule_to_suricata returned, <<>> before

vars == <<tool, args, credentials, config_file, config, remote, pc, exit_code,
          i, j, route_table, existing_destinations, rule_groups, success_count,
          routes_success_count, calls, console, run, remote_at_start, previous,
          firewall_rule, suricata_rule>>

\* Python's None where a str may stand; an absent dict or list is <<>>, a present
\* one <<d>>
None == <<"None">>

(***************************************************************************)
(* Strings.  A Python str is modelled by the tuple of its characters, so   *)
(* that startswith, upper, lower, split and the f-string concatenations    *)
(* are computed and not assumed.                                           *)
(***************************************************************************)
LowerLetters == <<"a","b","c","d","e","f","g","h","i","j","k","l","m",
                  "n","o","p","q","r","s","t","u","v","w","x","y","z">>

UpperLetters == <<"A","B","C","D","E","F","G","H","I","J","K","L","M",
                  "N","O","P","Q","R","S","T","U","V","W","X","Y","Z">>

Digits == <<"0","1","2","3","4","5","6","7","8","9">>

\* str.upper and str.lower, character by character
UpperOf == [c \in {LowerLetters[k] : k \in 1..26} |->
               UpperLetters[CHOOSE k \in 1..26 : LowerLetters[k] = c]]

LowerOf == [c \in {UpperLetters[k] : k \in 1..26} |->
               LowerLetters[CHOOSE k \in 1..26 : UpperLetters[k] = c]]

upper_char(c) == IF c \in DOMAIN UpperOf THEN UpperOf[c] ELSE c

lower_char(c) == IF c \in DOMAIN LowerOf THEN LowerOf[c] ELSE c

upper(s) == [k \in 1..Len(s) |-> upper_char(s[k])]

lower(s) == [k \in 1..Len(s) |-> lower_char(s[k])]

startswith(s, prefix) ==
    /\ Len(s) >= Len(prefix)
    /\ SubSeq(s, 1, Len(prefix)) = prefix

isdigit(s) ==
    /\ Len(s) > 0
    /\ \A k \in 1..Len(s) : \E d \in 1..10 : Digits[d] = s[k]

digit_value(c) == (CHOOSE d \in 1..10 : Digits[d] = c) - 1

RECURSIVE int_of(_)
int_of(s) ==
    IF Len(s) = 0 THEN 0
    ELSE 10 * int_of(SubSeq(s, 1, Len(s) - 1)) + digit_value(s[Len(s)])

RECURSIVE str_of_nat(_)
str_of_nat(n) ==
    IF n < 10 THEN <<Digits[n + 1]>>
    ELSE str_of_nat(n \div 10) \o <<Digits[(n % 10) + 1]>>

str_of_int(n) == IF n < 0 THEN <<"-">> \o str_of_nat(0 - n) ELSE str_of_nat(n)

\* s.split(sep) for a one-character separator: the list of the pieces
RECURSIVE split(_, _)
split(s, sep) ==
    IF \A k \in 1..Len(s) : s[k] # sep THEN <<s>>
    ELSE LET p == CHOOSE k \in 1..Len(s) :
                      /\ s[k] = sep
                      /\ \A m \in 1..(k - 1) : s[m] # sep
         IN  <<SubSeq(s, 1, p - 1)>> \o split(SubSeq(s, p + 1, Len(s)), sep)


(***************************************************************************)
(* RouteManager._is_valid_cidr: ipaddress.IPv4Network(cidr, strict=False)  *)
(* raises ValueError or not.  The address is four decimal octets, the      *)
(* optional part after "/" a prefix length 0..32, a netmask or a hostmask. *)
(***************************************************************************)
_parse_octet_ok(octet_str) ==
    /\ isdigit(octet_str)
    /\ Len(octet_str) <= 3
    /\ ~(octet_str # <<"0">> /\ octet_str[1] = "0")
    /\ int_of(octet_str) <= 255

_ip_int_ok(ip_str) ==
    /\ Len(ip_str) > 0
    /\ LET octets == split(ip_str, ".")
       IN  /\ Len(octets) = 4
           /\ \A k \in 1..4 : _parse_octet_ok(octets[k])

\* The four octets as numbers (the 32-bit value is kept octet by octet).
_ip_octets_from_string(ip_str) ==
    LET octets == split(ip_str, ".")
    IN  [k \in 1..4 |-> int_of(octets[k])]

_prefix_from_prefix_string_ok(prefixlen_str) ==
    /\ isdigit(prefixlen_str)
    /\ int_of(prefixlen_str) <= 32

\* _prefix_from_ip_int succeeds on a netmask (ones, then zeros); on failure
\* the value is inverted and tried again, which accepts a hostmask.
NetmaskOctets == {0, 128, 192, 224, 240, 248, 252, 254, 255}

_is_netmask(o) ==
    \E k \in 1..4 : /\ \A m \in 1..(k - 1) : o[m] = 255
                    /\ o[k] \in NetmaskOctets
                    /\ \A m \in (k + 1)..4 : o[m] = 0

_prefix_from_ip_string_ok(ip_str) ==
    /\ _ip_int_ok(ip_str)
    /\ LET o == _ip_octets_from_string(ip_str)
       IN  \/ _is_netmask(o)
           \/ _is_netmask([k \in 1..4 |-> 255 - o[k]])

\* A validation that forgets the part after the "/".
_is_valid_cidr_address_only(cidr) ==
    LET addr == split(cidr, "/")
    IN  Len(addr) <= 2 /\ _ip_int_ok(addr[1])

_is_valid_cidr(cidr) ==
    LET addr == split(cidr, "/")
    IN  /\ Len(addr) <= 2
        /\ _ip_int_ok(addr[1])
        /\ Len(addr) = 2 =>
              \/ _prefix_from_prefix_string_ok(addr[2])
              \/ _prefix_from_ip_string_ok(addr[2])

(***************************************************************************)
(* Bounds of the model.                                                    *)
(***************************************************************************)
MaxTables == 2      \* route tables in a configuration
MaxPolicies == 2    \* firewall policies in a configuration
MaxRuns == 2        \* invocations of a tool in a row

(***************************************************************************)
(* The route tool's inputs: Route, RouteTable, RouteConfiguration.         *)
(***************************************************************************)
Route(destination, target, target_type) ==
    [destination |-> destination, target |-> target, target_type |-> target_type]

RouteTable(table_id, routes) == [table_id |-> table_id, routes |-> routes]

Net1 == <<"1",".","0",".","0",".","0","/","8">>
Net2 == <<"2",".","0",".","0",".","0","/","8">>
DefaultCidr == <<"0",".","0",".","0",".","0","/","0">>
BadCidr == <<"1",".","0",".","0",".","0","/","3","3">>

Rtb1 == <<"r","t","b","-","1">>
Rtb2 == <<"r","t","b","-","2">>
TableIds == {Rtb1, Rtb2}

IgwA == <<"i","g","w","-","a">>
NatB == <<"n","a","t","-","b">>
PcxC == <<"p","c","x","-","c">>
EniD == <<"e","n","i","-","d">>
VgwE == <<"v","g","w","-","e">>
IgwZ == <<"i","g","w","-","z">>

R1 == Route(Net1, IgwA, None)
R2 == Route(Net1, NatB, <<"g","a","t","e","w","a","y">>)
R3 == Route(DefaultCidr, PcxC, None)
R4 == Route(Net2, EniD, <<"n","a","t">>)
R5 == Route(Net2, VgwE, None)
RX == Route(BadCidr, IgwA, None)

\* The route tables a configuration file is made of.
TableChoices ==
    { RouteTable(Rtb1, <<R1, R2>>),
      RouteTable(Rtb1, <<R3, R1>>),
      RouteTable(Rtb1, <<R1, RX>>),
      RouteTable(Rtb2, <<R4, R5>>),
      RouteTable(Rtb2, <<>>) }

SeqUpTo(S, n) == UNION { [1..k -> S] : k \in 0..n }

RouteConfigurations == SeqUpTo(TableChoices, MaxTables)

(***************************************************************************)
(* The provider's route tables: a table id is unknown or has a set         *)
(* of routes, each with a destination and one target attribute set.        *)
(***************************************************************************)
RemoteRoute(destination, attr, target) ==
    [destination_cidr_block |-> destination,
     gateway_id |-> IF attr = "GatewayId" THEN target ELSE None,
     nat_gateway_id |-> IF attr = "NatGatewayId" THEN target ELSE None,
     vpc_peering_connection_id |->
         IF attr = "VpcPeeringConnectionId" THEN target ELSE None,
     network_interface_id |->
         IF attr = "NetworkInterfaceId" THEN target ELSE None]

RemoteRouteSets ==
    { {},
      { RemoteRoute(Net1, "GatewayId", IgwZ) },
      { RemoteRoute(Net1, "NatGatewayId", NatB),
        RemoteRoute(DefaultCidr, "GatewayId", IgwA) } }

\* <<>>: the provider has no such table; <<routes>>: the table and its routes
RemoteTables ==
    { [t \in TableIds |-> IF t = Rtb1 THEN one ELSE two] :
        one \in {<<>>} \cup { <<rs>> : rs \in RemoteRouteSets },
        two \in {<<>>, <<{}>>} }

(***************************************************************************)
(* What a run leaves behind: the provider calls and the status lines.      *)
(***************************************************************************)
Call(op, params, result) == [op |-> op, params |-> params, result |-> result]

Line(text, about) == [text |-> text, about |-> about]

MutatingOps == {"create_route", "delete_route", "create_rule_group",
                "create_firewall_policy", "update_firewall_policy"}

\* sys.exit(code), or main returning (code 0)
Exit(code) == pc' = "exit" /\ exit_code' = code

\* an exception nothing catches: the interpreter prints the traceback, exit status 1
Uncaught == pc' = "exit" /\ exit_code' = 1

locals == <<i, j, route_table, existing_destinations, rule_groups,
            success_count, routes_success_count>>

inputs == <<tool, args, credentials, config_file, config, run, remote_at_start,
            previous, firewall_rule, suricata_rule>>

(***************************************************************************)
(* route_manager.py                                                        *)
(***************************************************************************)
RouteManager__init__ ==
    /\ tool = "route" /\ pc = "init"
    /\ IF credentials
       THEN pc' = "load" /\ UNCHANGED <<exit_code, console>>
       ELSE /\ console' = Append(console, Line("credentials_not_found", None))
            /\ Exit(1)
    /\ UNCHANGED <<inputs, locals, remote, calls>>

RouteManager_load_configuration ==
    /\ tool = "route" /\ pc = "load"
    /\ IF config_file = "ok"
       THEN /\ console' = Append(console, Line("loading", None))
            /\ pc' = "validate" /\ i' = 1
            /\ UNCHANGED exit_code
       ELSE /\ console' = console \o <<Line("loading", None),
                                       Line("load_failed", config_file)>>
            /\ Exit(1)
            /\ UNCHANGED i
    /\ UNCHANGED <<inputs, j, route_table, existing_destinations, rule_groups,
                   success_count, routes_success_count, remote, calls>>

\* RouteTable(table_id).load(): the table (its id) or None; the third answer,
\* a ClientError other than InvalidRouteTableID.NotFound, is raised on.
get_route_table(table_id) ==
    IF remote.route_tables[table_id] = <<>> THEN None ELSE table_id

_get_route_target(route) ==
    IF route.gateway_id # None THEN route.gateway_id
    ELSE IF route.nat_gateway_id # None THEN route.nat_gateway_id
    ELSE IF route.vpc_peering_connection_id # None
         THEN route.vpc_peering_connection_id
    ELSE IF route.network_interface_id # None THEN route.network_interface_id
    ELSE <<"u","n","k","n","o","w","n">>

_get_target_type(route) ==
    IF route.gateway_id # None THEN "gateway"
    ELSE IF route.nat_gateway_id # None THEN "nat"
    ELSE IF route.vpc_peering_connection_id # None THEN "vpc-peering"
    ELSE IF route.network_interface_id # None THEN "network-interface"
    ELSE "unknown"

\* A listing that leaves no route out.
get_existing_routes_with_default(table) ==
    { [destination |-> route.destination_cidr_block,
       target |-> _get_route_target(route),
       target_type |-> _get_target_type(route)] :
          route \in remote.route_tables[table][1] }

\* The list's order is the provider's; only the set of its entries is used.
get_existing_routes(table) ==
    { [destination |-> route.destination_cidr_block,
       target |-> _get_route_target(route),
       target_type |-> _get_target_type(route)] :
          route \in { r \in remote.route_tables[table][1] :
                          r.destination_cidr_block # DefaultCidr } }

\* One iteration of validate_configuration's loop over the route tables.
RouteManager_validate_table ==
    /\ tool = "route" /\ pc = "validate" /\ i <= Len(config)
    /\ LET route_table_config == config[i]
           fetched == get_route_table(route_table_config.table_id)
           fetch == Call("get_route_table", route_table_config.table_id,
                         IF fetched = None THEN "NotFound" ELSE "found")
           routes == route_table_config.routes
           bad == { k \in 1..Len(routes) : ~_is_valid_cidr(routes[k].destination) }
       IN  /\ calls' = Append(calls, fetch)
           /\ IF fetched = None
              THEN /\ console' = Append(console,
                          Line("table_not_found", route_table_config.table_id))
                   /\ Exit(1)
                   /\ UNCHANGED i
              ELSE IF bad # {}
              THEN /\ console' = Append(console, Line("invalid_cidr",
                          routes[CHOOSE k \in bad : \A m \in bad : k <= m].destination))
                   /\ Exit(1)
                   /\ UNCHANGED i
              ELSE /\ i' = i + 1
                   /\ UNCHANGED <<pc, exit_code, console>>
    /\ UNCHANGED <<inputs, j, route_table, existing_destinations, rule_groups,
                   success_count, routes_success_count, remote>>

\* get_route_table re-raises every ClientError but NotFound; nothing catches it.
RouteManager_validate_raise ==
    /\ tool = "route" /\ pc = "validate" /\ i <= Len(config)
    /\ calls' = Append(calls, Call("get_route_table", config[i].table_id, "ClientError"))
    /\ Uncaught
    /\ UNCHANGED <<inputs, locals, remote, console>>

RouteManager_validate_passed ==
    /\ tool = "route" /\ pc = "validate" /\ i > Len(config)
    /\ IF args.validate_only
       THEN /\ console' = console \o <<Line("validation_passed", None),
                                       Line("configuration_valid", None)>>
            /\ Exit(0)
            /\ UNCHANGED <<i, success_count>>
       ELSE /\ console' = Append(console, Line("validation_passed", None))
            /\ pc' = "apply" /\ i' = 1 /\ success_count' = 0
            /\ UNCHANGED exit_code
    /\ UNCHANGED <<inputs, j, route_table, existing_destinations, rule_groups,
                   routes_success_count, remote, calls>>

\* Keyword arguments chosen by the route's target_type when it names one.
create_route_kwargs_by_type(table, route) ==
    LET kwargs == [RouteTableId |-> table, DestinationCidrBlock |-> route.destination]
    IN  IF route.target_type = <<"g","a","t","e","w","a","y">>
        THEN kwargs @@ [GatewayId |-> route.target]
        ELSE IF route.target_type = <<"n","a","t">>
        THEN kwargs @@ [NatGatewayId |-> route.target]
        ELSE IF startswith(route.target, <<"i","g","w","-">>)
        THEN kwargs @@ [GatewayId |-> route.target]
        ELSE IF startswith(route.target, <<"n","a","t","-">>)
        THEN kwargs @@ [NatGatewayId |-> route.target]
        ELSE IF startswith(route.target, <<"p","c","x","-">>)
        THEN kwargs @@ [VpcPeeringConnectionId |-> route.target]
        ELSE IF startswith(route.target, <<"e","n","i","-">>)
        THEN kwargs @@ [NetworkInterfaceId |-> route.target]
        ELSE kwargs @@ [GatewayId |-> route.target]

\* The keyword arguments create_route passes to ec2_client.create_route.
create_route_kwargs(table, route) ==
    LET kwargs == [RouteTableId |-> table, DestinationCidrBlock |-> route.destination]
    IN  IF startswith(route.target, <<"i","g","w","-">>)
        THEN kwargs @@ [GatewayId |-> route.target]
        ELSE IF startswith(route.target, <<"n","a","t","-">>)
        THEN kwargs @@ [NatGatewayId |-> route.target]
        ELSE IF startswith(route.target, <<"p","c","x","-">>)
        THEN kwargs @@ [VpcPeeringConnectionId |-> route.target]
        ELSE IF startswith(route.target, <<"e","n","i","-">>)
        THEN kwargs @@ [NetworkInterfaceId |-> route.target]
        ELSE kwargs @@ [GatewayId |-> route.target]

TargetParams == {"GatewayId", "NatGatewayId", "VpcPeeringConnectionId",
                 "NetworkInterfaceId"}

\* The provider's route table after it accepted a create_route call.
ec2_route_created(kwargs) ==
    LET attr == CHOOSE a \in DOMAIN kwargs : a \in TargetParams
        table == kwargs.RouteTableId
    IN  [remote EXCEPT !.route_tables[table] =
            <<@[1] \cup {RemoteRoute(kwargs.DestinationCidrBlock, attr, kwargs[attr])}>>]

\* The provider has a route with this destination in this table.
ec2_has_route(kwargs) ==
    /\ remote.route_tables[kwargs.RouteTableId] # <<>>
    /\ \E r \in remote.route_tables[kwargs.RouteTableId][1] :
           r.destination_cidr_block = kwargs.DestinationCidrBlock

\* create_route(route_table, route), called from update_route_table: the call,
\* the provider's answer, and what create_route returns to the caller.
create_route(table, route) ==
    LET kwargs == create_route_kwargs(table, route)
    IN  /\ \/ /\ remote.route_tables[table] # <<>>
              /\ ~ec2_has_route(kwargs)
              /\ remote' = ec2_route_created(kwargs)
              /\ calls' = Append(calls, Call("create_route", kwargs, "ok"))
              /\ console' = Append(console, Line("created_route", route))
              /\ routes_success_count' = routes_success_count + 1
           \/ /\ ec2_has_route(kwargs)
              /\ calls' = Append(calls, Call("create_route", kwargs, "RouteAlreadyExists"))
              /\ console' = Append(console, Line("route_already_exists", route.destination))
              /\ routes_success_count' = routes_success_count + 1
              /\ UNCHANGED remote
           \/ /\ calls' = Append(calls, Call("create_route", kwargs, "ClientError"))
              /\ console' = Append(console, Line("failed_to_create_route", route.destination))
              /\ UNCHANGED <<remote, routes_success_count>>

\* update_route_table's return value once the table was found
update_route_table_result == TRUE

\* The provider loses the route table the next update is for (someone deletes
\* it after validation found it).
ec2_route_table_deleted ==
    /\ tool = "route" /\ pc = "apply" /\ i <= Len(config)
    /\ remote.route_tables[config[i].table_id] # <<>>
    /\ remote' = [remote EXCEPT !.route_tables[config[i].table_id] = <<>>]
    /\ UNCHANGED <<inputs, locals, pc, exit_code, calls, console>>

\* An update that counts a table it did not find.
update_route_table_not_found_counted ==
    /\ tool = "route" /\ pc = "apply" /\ i <= Len(config)
    /\ get_route_table(config[i].table_id) = None
    /\ calls' = Append(calls, Call("get_route_table", config[i].table_id, "NotFound"))
    /\ console' = console \o <<Line("processing", config[i].table_id),
                               Line("table_not_found", config[i].table_id)>>
    /\ i' = i + 1
    /\ success_count' = success_count + 1
    /\ UNCHANGED <<inputs, j, route_table, existing_destinations, rule_groups,
                   routes_success_count, remote, pc, exit_code>>

update_route_table_not_found ==
    /\ tool = "route" /\ pc = "apply" /\ i <= Len(config)
    /\ get_route_table(config[i].table_id) = None
    /\ calls' = Append(calls, Call("get_route_table", config[i].table_id, "NotFound"))
    /\ console' = console \o <<Line("processing", config[i].table_id),
                               Line("table_not_found", config[i].table_id)>>
    /\ i' = i + 1
    /\ UNCHANGED <<inputs, j, route_table, existing_destinations, rule_groups,
                   success_count, routes_success_count, remote, pc, exit_code>>

update_route_table_raise ==
    /\ tool = "route" /\ pc = "apply" /\ i <= Len(config)
    /\ calls' = Append(calls, Call("get_route_table", config[i].table_id, "ClientError"))
    /\ console' = Append(console, Line("processing", config[i].table_id))
    /\ Uncaught
    /\ UNCHANGED <<inputs, locals, remote>>

update_route_table_found ==
    /\ tool = "route" /\ pc = "apply" /\ i <= Len(config)
    /\ get_route_table(config[i].table_id) # None
    /\ route_table' = get_route_table(config[i].table_id)
    /\ calls' = Append(calls, Call("get_route_table", config[i].table_id, "found"))
    /\ console' = console \o <<Line("processing", config[i].table_id)>>
           \o (IF args.dry_run THEN <<Line("dry_run_mode", None)>> ELSE <<>>)
    /\ existing_destinations' =
           { route.destination : route \in get_existing_routes(route_table') }
    /\ routes_success_count' = 0
    /\ j' = 1
    /\ pc' = "routes"
    /\ UNCHANGED <<inputs, i, rule_groups, success_count, remote, exit_code>>

\* An update that sends the create call for a destination the table has.
update_route_table_exists_creates ==
    /\ tool = "route" /\ pc = "routes" /\ j <= Len(config[i].routes)
    /\ config[i].routes[j].destination \in existing_destinations
    /\ create_route(route_table, config[i].routes[j])
    /\ j' = j + 1
    /\ UNCHANGED <<inputs, i, route_table, existing_destinations, rule_groups,
                   success_count, pc, exit_code>>

\* An update that replaces a route whose destination the table has.
update_route_table_exists_replaces ==
    /\ tool = "route" /\ pc = "routes" /\ j <= Len(config[i].routes)
    /\ config[i].routes[j].destination \in existing_destinations
    /\ LET route == config[i].routes[j]
           kwargs == create_route_kwargs(route_table, route)
           attr == CHOOSE a \in DOMAIN kwargs : a \in TargetParams
           kept == { r \in remote.route_tables[route_table][1] :
                        r.destination_cidr_block # route.destination }
       IN  /\ remote' = [remote EXCEPT !.route_tables[route_table] =
                  <<kept \cup {RemoteRoute(route.destination, attr, route.target)}>>]
           /\ calls' = calls \o
                  <<Call("delete_route",
                         [RouteTableId |-> route_table,
                          DestinationCidrBlock |-> route.destination], "ok"),
                    Call("create_route", kwargs, "ok")>>
           /\ console' = Append(console, Line("route_already_exists", route.destination))
    /\ j' = j + 1
    /\ UNCHANGED <<inputs, i, route_table, existing_destinations, rule_groups,
                   success_count, routes_success_count, pc, exit_code>>

update_route_table_exists ==
    /\ tool = "route" /\ pc = "routes" /\ j <= Len(config[i].routes)
    /\ config[i].routes[j].destination \in existing_destinations
    /\ console' = Append(console,
           Line("route_already_exists", config[i].routes[j].destination))
    /\ j' = j + 1
    /\ UNCHANGED <<inputs, i, route_table, existing_destinations, rule_groups,
                   success_count, routes_success_count, remote, pc, exit_code, calls>>

\* A dry run that creates the route all the same.
update_route_table_would_create_applies ==
    /\ tool = "route" /\ pc = "routes" /\ j <= Len(config[i].routes)
    /\ config[i].routes[j].destination \notin existing_destinations
    /\ args.dry_run
    /\ create_route(route_table, config[i].routes[j])
    /\ j' = j + 1
    /\ UNCHANGED <<inputs, i, route_table, existing_destinations, rule_groups,
                   success_count, pc, exit_code>>

update_route_table_would_create ==
    /\ tool = "route" /\ pc = "routes" /\ j <= Len(config[i].routes)
    /\ config[i].routes[j].destination \notin existing_destinations
    /\ args.dry_run
    /\ console' = Append(console, Line("would_create_route", config[i].routes[j]))
    /\ routes_success_count' = routes_success_count + 1
    /\ j' = j + 1
    /\ UNCHANGED <<inputs, i, route_table, existing_destinations, rule_groups,
                   success_count, remote, pc, exit_code, calls>>

\* A live update that reports the route and sends nothing.
update_route_table_create_only_reports ==
    /\ tool = "route" /\ pc = "routes" /\ j <= Len(config[i].routes)
    /\ config[i].routes[j].destination \notin existing_destinations
    /\ ~args.dry_run
    /\ console' = Append(console, Line("created_route", config[i].routes[j]))
    /\ routes_success_count' = routes_success_count + 1
    /\ j' = j + 1
    /\ UNCHANGED <<inputs, i, route_table, existing_destinations, rule_groups,
                   success_count, remote, pc, exit_code, calls>>

update_route_table_create ==
    /\ tool = "route" /\ pc = "routes" /\ j <= Len(config[i].routes)
    /\ config[i].routes[j].destination \notin existing_destinations
    /\ ~args.dry_run
    /\ create_route(route_table, config[i].routes[j])
    /\ j' = j + 1
    /\ UNCHANGED <<inputs, i, route_table, existing_destinations, rule_groups,
                   success_count, pc, exit_code>>

\* update_route_table returns, and main counts the table if it returned True.
update_route_table_return ==
    /\ tool = "route" /\ pc = "routes" /\ j > Len(config[i].routes)
    /\ console' = Append(console, Line("processed_routes", routes_success_count))
    /\ success_count' = IF update_route_table_result THEN success_count + 1
                        ELSE success_count
    /\ i' = i + 1
    /\ pc' = "apply"
    /\ UNCHANGED <<inputs, j, route_table, existing_destinations, rule_groups,
                   routes_success_count, remote, exit_code, calls>>

route_main_summary ==
    /\ tool = "route" /\ pc = "apply" /\ i > Len(config)
    /\ console' = console \o <<Line("summary", <<success_count, Len(config)>>),
           IF args.dry_run THEN Line("dry_run_completed", None)
           ELSE Line("completed_successfully", None)>>
    /\ Exit(0)
    /\ UNCHANGED <<inputs, locals, remote, calls>>

(***************************************************************************)
(* firewall_manager.py: FirewallRule, FirewallPolicy, FirewallConfiguration*)
(***************************************************************************)
FirewallRule(name, priority, action, source, destination, protocol, description) ==
    [name |-> name, priority |-> priority, action |-> action, source |-> source,
     destination |-> destination, protocol |-> protocol, description |-> description]

FirewallPolicy(name, description, rules) ==
    [name |-> name, description |-> description, rules |-> rules]

Host9 == <<"9",".","9",".","9",".","9","/","3","2">>

FA == FirewallRule(<<"a">>, 10, <<"D","R","O","P">>, <<"A","N","Y">>, Host9,
                   <<"T","C","P">>, None)
FB == FirewallRule(<<"b">>, 7, <<"a","l","l","o","w">>, Net1, <<"a","n","y">>,
                   <<"A","n","y">>, <<"w","e","b">>)
FC == FirewallRule(<<"a">>, 123, <<"A","l","e","r","t">>, <<"A","n","y">>, Net2,
                   <<"i","c","m","p">>, <<>>)
FX == FirewallRule(<<"x">>, 1, <<"R","E","J","E","C","T">>, <<"A","N","Y">>,
                   <<"A","N","Y">>, <<"U","D","P">>, None)
FY == FirewallRule(<<"y">>, 2, <<"d","r","o","p">>, <<"A","N","Y">>,
                   <<"A","N","Y">>, <<"G","R","E">>, None)

PolP == <<"p">>
PolQ == <<"q">>
PolicyNames == {PolP, PolQ}

\* The policies a configuration file is made of.
PolicyChoices ==
    { FirewallPolicy(PolP, None, <<FA, FB>>),
      FirewallPolicy(PolP, None, <<FA, FC>>),
      FirewallPolicy(PolP, None, <<FB, FX>>),
      FirewallPolicy(PolQ, <<"d">>, <<FB>>),
      FirewallPolicy(PolQ, None, <<FY>>) }

FirewallConfigurations == SeqUpTo(PolicyChoices, MaxPolicies)

_is_valid_action(action) ==
    upper(action) \in { <<"A","L","L","O","W">>, <<"D","R","O","P">>,
                        <<"A","L","E","R","T">> }

_is_valid_protocol(protocol) ==
    upper(protocol) \in { <<"T","C","P">>, <<"U","D","P">>, <<"A","N","Y">>,
                          <<"I","C","M","P">> }

\* The first failure validate_configuration reports (<<line>>), <<>> when it passes.
RECURSIVE first_invalid_rule(_, _)
first_invalid_rule(rules, k) ==
    IF k > Len(rules) THEN <<>>
    ELSE IF ~_is_valid_action(rules[k].action)
         THEN <<Line("invalid_action", rules[k].action)>>
    ELSE IF ~_is_valid_protocol(rules[k].protocol)
         THEN <<Line("invalid_protocol", rules[k].protocol)>>
    ELSE first_invalid_rule(rules, k + 1)

RECURSIVE first_invalid_policy(_, _)
first_invalid_policy(policies, k) ==
    IF k > Len(policies) THEN <<>>
    ELSE IF first_invalid_rule(policies[k].rules, 1) # <<>>
         THEN first_invalid_rule(policies[k].rules, 1)
    ELSE first_invalid_policy(policies, k + 1)

FirewallManager_validate_configuration(cfg) == first_invalid_policy(cfg, 1) = <<>>

AnyToken == <<"a","n","y">>

\* A conversion that knows ANY in upper case only.
_convert_rule_to_suricata_exact_any(rule) ==
    LET action == IF upper(rule.action) = <<"D","R","O","P">>
                  THEN <<"d","r","o","p">> ELSE <<"a","l","e","r","t">>
        source == IF rule.source = <<"A","N","Y">> THEN AnyToken ELSE rule.source
        destination == IF rule.destination = <<"A","N","Y">> THEN AnyToken
                       ELSE rule.destination
        protocol == IF rule.protocol = <<"A","N","Y">> THEN AnyToken
                    ELSE lower(rule.protocol)
        msg == IF rule.description # None /\ rule.description # <<>>
               THEN rule.description ELSE rule.name
    IN  action \o <<" ">> \o protocol \o <<" ">> \o source
          \o <<" ","a","n","y"," ","-",">"," ">> \o destination
          \o <<" ","a","n","y"," ","(","m","s","g",":","\"">> \o msg
          \o <<"\"",";"," ","s","i","d",":">> \o str_of_int(rule.priority)
          \o <<";",")">>

_convert_rule_to_suricata(rule) ==
    LET action == IF upper(rule.action) = <<"D","R","O","P">>
                  THEN <<"d","r","o","p">> ELSE <<"a","l","e","r","t">>
        source == IF upper(rule.source) = <<"A","N","Y">> THEN AnyToken ELSE rule.source
        destination == IF upper(rule.destination) = <<"A","N","Y">> THEN AnyToken
                       ELSE rule.destination
        protocol == IF upper(rule.protocol) = <<"A","N","Y">> THEN AnyToken
                    ELSE lower(rule.protocol)
        msg == IF rule.description # None /\ rule.description # <<>>
               THEN rule.description ELSE rule.name
    IN  action \o <<" ">> \o protocol \o <<" ">> \o source
          \o <<" ","a","n","y"," ","-",">"," ">> \o destination
          \o <<" ","a","n","y"," ","(","m","s","g",":","\"">> \o msg
          \o <<"\"",";"," ","s","i","d",":">> \o str_of_int(rule.priority)
          \o <<";",")">>

rule_group_name(rule) == rule.name \o <<"-","r","u","l","e","-","g","r","o","u","p">>

RuleGroupNames == { rule_group_name(r) : r \in {FA, FB, FC, FX, FY} }

\* _get_account_id: the caller's account, or the fallback when the lookup fails
_get_account_id ==
    IF remote.account = None THEN <<"1","2","3","4","5","6","7","8","9","0","1","2">>
    ELSE remote.account

Region == "ap-southeast-4"

\* f"arn:aws:network-firewall:{region}:{account}:stateful-rulegroup/{name}",
\* kept as its fields
ResourceArn(name) ==
    <<"arn", "aws", "network-firewall", Region, _get_account_id,
      "stateful-rulegroup", name>>

\* The references _convert_rules_to_aws_format returns.
_convert_rules_to_aws_format(rules) ==
    [k \in 1..Len(rules) |-> [ResourceArn |-> ResourceArn(rule_group_name(rules[k]))]]

\* The create_rule_group request of _create_rule_group(group_name, [rule]).
create_rule_group_request(rule) ==
    [RuleGroupName |-> rule_group_name(rule), Type |-> "STATEFUL", Capacity |-> 100,
     RulesString |-> _convert_rule_to_suricata(rule)]

\* The provider's rule groups after the first k of the requests, of which it
\* accepts those in `accepted`.
RECURSIVE rule_groups_after(_, _, _)
rule_groups_after(rules, accepted, k) ==
    IF k = 0 THEN remote.rule_groups
    ELSE LET before == rule_groups_after(rules, accepted, k - 1)
             request == create_rule_group_request(rules[k])
         IN  IF k \in accepted
             THEN [before EXCEPT ![request.RuleGroupName] = request.RulesString]
             ELSE before

\* The provider accepts a create_rule_group only for a name it does not have.
can_accept(rules, accepted) ==
    \A k \in accepted :
        rule_groups_after(rules, accepted, k - 1)[rule_group_name(rules[k])] = None

\* A conversion that asks only for the rule groups the provider does not have.
RECURSIVE create_rule_group_calls_missing_only(_, _, _)
create_rule_group_calls_missing_only(rules, accepted, k) ==
    IF k = 0 THEN <<>>
    ELSE LET before == create_rule_group_calls_missing_only(rules, accepted, k - 1)
         IN  IF k \notin accepted
                /\ rule_groups_after(rules, accepted, k - 1)
                       [rule_group_name(rules[k])] # None
             THEN before
             ELSE Append(before,
                    Call("create_rule_group", create_rule_group_request(rules[k]),
                         IF k \in accepted THEN "ok" ELSE "ClientError"))

RECURSIVE create_rule_group_calls(_, _, _)
create_rule_group_calls(rules, accepted, k) ==
    IF k = 0 THEN <<>>
    ELSE Append(create_rule_group_calls(rules, accepted, k - 1),
                Call("create_rule_group", create_rule_group_request(rules[k]),
                     IF k \in accepted THEN "ok"
                     ELSE IF rule_groups_after(rules, accepted, k - 1)
                                 [rule_group_name(rules[k])] # None
                     THEN "Duplicate" ELSE "ClientError"))

RECURSIVE create_rule_group_lines(_, _, _)
create_rule_group_lines(rules, accepted, k) ==
    IF k = 0 THEN <<>>
    ELSE Append(create_rule_group_lines(rules, accepted, k - 1),
                Line(IF k \in accepted THEN "created_rule_group"
                     ELSE "failed_to_create_rule_group", rule_group_name(rules[k])))

\* The request create_firewall_policy and update_firewall_policy both send.
firewall_policy_request(policy_config) ==
    [FirewallPolicyName |-> policy_config.name,
     FirewallPolicy |->
        [StatelessDefaultActions |-> <<"aws:forward_to_sfe">>,
         StatelessFragmentDefaultActions |-> <<"aws:forward_to_sfe">>,
         StatefulRuleGroupReferences |->
             _convert_rules_to_aws_format(policy_config.rules)],
     Description |-> IF policy_config.description = None THEN <<>>
                     ELSE policy_config.description]

\* A fetch that finds no policy, whatever the provider has.
get_firewall_policy_none(policy_name) == <<>>

\* <<>> for None (ResourceNotFoundException), <<response["FirewallPolicy"]>> otherwise
get_firewall_policy(policy_name) ==
    IF remote.policies[policy_name] = <<>> THEN <<>>
    ELSE <<remote.policies[policy_name][1].FirewallPolicy>>

FirewallManager__init__ ==
    /\ tool = "firewall" /\ pc = "init"
    /\ IF credentials
       THEN pc' = "load" /\ UNCHANGED <<exit_code, console>>
       ELSE /\ console' = Append(console, Line("credentials_not_found", None))
            /\ Exit(1)
    /\ UNCHANGED <<inputs, locals, remote, calls>>

\* --list-policies: list_firewall_policies (a ClientError gives []), then return
firewall_main_list_policies ==
    /\ tool = "firewall" /\ pc = "load" /\ args.list_policies
    /\ \E result \in {"ok", "ClientError"} :
          /\ calls' = Append(calls, Call("list_firewall_policies", <<>>, result))
          /\ console' = Append(console,
                Line("policies", IF result = "ok"
                                 THEN { n \in PolicyNames : remote.policies[n] # <<>> }
                                 ELSE {}))
    /\ Exit(0)
    /\ UNCHANGED <<inputs, locals, remote>>

\* load_configuration, validate_configuration and the --validate-only return
firewall_main_load_and_validate ==
    /\ tool = "firewall" /\ pc = "load" /\ ~args.list_policies
    /\ IF config_file # "ok"
       THEN /\ console' = console \o <<Line("loading", None),
                                       Line("load_failed", config_file)>>
            /\ Exit(1)
            /\ UNCHANGED <<i, success_count>>
       ELSE IF ~FirewallManager_validate_configuration(config)
       THEN /\ console' = console \o <<Line("loading", None)>>
                                   \o first_invalid_policy(config, 1)
            /\ Exit(1)
            /\ UNCHANGED <<i, success_count>>
       ELSE IF args.validate_only
       THEN /\ console' = console \o <<Line("loading", None),
                   Line("validation_passed", None), Line("configuration_valid", None)>>
            /\ Exit(0)
            /\ UNCHANGED <<i, success_count>>
       ELSE /\ console' = console \o <<Line("loading", None),
                   Line("validation_passed", None), Line("applying", None)>>
                   \o (IF args.dry_run THEN <<Line("dry_run_mode", None)>> ELSE <<>>)
            /\ pc' = "apply" /\ i' = 1 /\ success_count' = 0
            /\ UNCHANGED exit_code
    /\ UNCHANGED <<inputs, j, route_table, existing_destinations, rule_groups,
                   routes_success_count, remote, calls>>

\* One iteration of apply_configuration's loop in dry-run mode.
apply_configuration_dry_run ==
    /\ tool = "firewall" /\ pc = "apply" /\ i <= Len(config) /\ args.dry_run
    /\ LET policy_config == config[i]
           existing_policy == get_firewall_policy(policy_config.name)
       IN  /\ calls' = Append(calls,
                  Call("describe_firewall_policy", policy_config.name,
                       IF existing_policy # <<>> THEN "found" ELSE "NotFound"))
           /\ console' = console \o <<Line("processing", policy_config.name),
                  Line(IF existing_policy # <<>> THEN "would_update_policy"
                       ELSE "would_create_policy", policy_config.name)>>
    /\ success_count' = success_count + 1
    /\ i' = i + 1
    /\ UNCHANGED <<inputs, j, route_table, existing_destinations, rule_groups,
                   routes_success_count, remote, pc, exit_code>>

\* The provider's policies after it accepted a create or an update.
firewall_policy_stored(request) ==
    [remote.policies EXCEPT ![request.FirewallPolicyName] =
        <<[FirewallPolicy |-> request.FirewallPolicy,
           Description |-> request.Description]>>]

\* The provider creates a policy only under a new name and updates only one it has.
can_store(op, request) ==
    IF op = "create_firewall_policy"
    THEN remote.policies[request.FirewallPolicyName] = <<>>
    ELSE remote.policies[request.FirewallPolicyName] # <<>>

\* A result that also wants a rule group to have been created.
policy_call_result_needs_groups(accepted, policy_ok) == policy_ok /\ accepted # {}

\* What the policy call returns to apply_configuration: True iff no ClientError.
policy_call_result(accepted, policy_ok) == policy_ok

\* One iteration of apply_configuration's loop in live mode: the fetch, then
\* update_firewall_policy or create_firewall_policy, which first creates one
\* rule group per rule (_convert_rules_to_aws_format) and then sends the policy.
apply_configuration_live ==
    /\ tool = "firewall" /\ pc = "apply" /\ i <= Len(config) /\ ~args.dry_run
    /\ LET policy_config == config[i]
           rules == policy_config.rules
           existing_policy == get_firewall_policy(policy_config.name)
           op == IF existing_policy # <<>> THEN "update_firewall_policy"
                 ELSE "create_firewall_policy"
           request == firewall_policy_request(policy_config)
       IN  \E accepted \in SUBSET (1..Len(rules)), policy_ok \in BOOLEAN :
              /\ can_accept(rules, accepted)
              /\ policy_ok => can_store(op, request)
              /\ remote' = [remote EXCEPT
                    !.rule_groups = rule_groups_after(rules, accepted, Len(rules)),
                    !.policies = IF policy_ok THEN firewall_policy_stored(request)
                                 ELSE @]
              /\ rule_groups' = request.FirewallPolicy.StatefulRuleGroupReferences
              /\ calls' = calls
                    \o <<Call("describe_firewall_policy", policy_config.name,
                              IF existing_policy # <<>> THEN "found" ELSE "NotFound")>>
                    \o create_rule_group_calls(rules, accepted, Len(rules))
                    \o <<Call(op, request,
                              IF policy_ok THEN "ok"
                              ELSE IF ~can_store(op, request) THEN "Duplicate"
                              ELSE "ClientError")>>
              /\ console' = console \o <<Line("processing", policy_config.name)>>
                    \o create_rule_group_lines(rules, accepted, Len(rules))
                    \o <<Line(IF ~policy_ok THEN "failed_policy"
                              ELSE IF existing_policy # <<>> THEN "updated_policy"
                              ELSE "created_policy", policy_config.name)>>
              /\ success_count' = IF policy_call_result(accepted, policy_ok)
                                  THEN success_count + 1 ELSE success_count
    /\ i' = i + 1
    /\ UNCHANGED <<inputs, j, route_table, existing_destinations,
                   routes_success_count, pc, exit_code>>

\* get_firewall_policy re-raises every ClientError but ResourceNotFoundException.
apply_configuration_raise ==
    /\ tool = "firewall" /\ pc = "apply" /\ i <= Len(config)
    /\ calls' = Append(calls,
           Call("describe_firewall_policy", config[i].name, "ClientError"))
    /\ console' = Append(console, Line("processing", config[i].name))
    /\ Uncaught
    /\ UNCHANGED <<inputs, locals, remote>>

\* A result that is content with one policy applied.
apply_configuration_result_any == success_count > 0 \/ Len(config) = 0

\* apply_configuration's return value
apply_configuration_result == success_count = Len(config)

\* A main that ends with status 0 whatever apply_configuration returned.
firewall_main_applied_exit_zero ==
    /\ tool = "firewall" /\ pc = "apply" /\ i > Len(config)
    /\ console' = console \o <<Line("summary", <<success_count, Len(config)>>),
           IF ~apply_configuration_result THEN Line("failed_to_apply", None)
           ELSE IF args.dry_run THEN Line("dry_run_completed", None)
           ELSE Line("applied_successfully", None)>>
    /\ Exit(0)
    /\ UNCHANGED <<inputs, locals, remote, calls>>

\* apply_configuration returns and main ends: sys.exit(1) when it returned False
firewall_main_applied ==
    /\ tool = "firewall" /\ pc = "apply" /\ i > Len(config)
    /\ console' = console \o <<Line("summary", <<success_count, Len(config)>>),
           IF ~apply_configuration_result THEN Line("failed_to_apply", None)
           ELSE IF args.dry_run THEN Line("dry_run_completed", None)
           ELSE Line("applied_successfully", None)>>
    /\ IF apply_configuration_result THEN Exit(0) ELSE Exit(1)
    /\ UNCHANGED <<inputs, locals, remote, calls>>

(***************************************************************************)
(* The runs.                                                               *)
(***************************************************************************)
Args(dry_run, validate_only, list_policies) ==
    [dry_run |-> dry_run, validate_only |-> validate_only,
     list_policies |-> list_policies]

OldPolicy ==
    [FirewallPolicy |->
        [StatelessDefaultActions |-> <<"aws:forward_to_sfe">>,
         StatelessFragmentDefaultActions |-> <<"aws:forward_to_sfe">>,
         StatefulRuleGroupReferences |-> <<>>],
     Description |-> <<"o","l","d">>]

OldRulesString == <<"p","a","s","s">>

NoRouteTables == [t \in TableIds |-> <<>>]
NoPolicies == [n \in PolicyNames |-> <<>>]
NoRuleGroups == [g \in RuleGroupNames |-> None]

Remote(route_tables, policies, groups, account) ==
    [route_tables |-> route_tables, policies |-> policies, rule_groups |-> groups,
     account |-> account]

RouteRemotes ==
    { Remote(t, NoPolicies, NoRuleGroups, None) : t \in RemoteTables }

\* The account lookup succeeds where a rule group is there already.
FirewallRemotes ==
    { Remote(NoRouteTables, p, ga[1], ga[2]) :
        p \in { NoPolicies, [NoPolicies EXCEPT ![PolP] = <<OldPolicy>>] },
        ga \in { <<NoRuleGroups, None>>,
                 <<[NoRuleGroups EXCEPT ![rule_group_name(FA)] = OldRulesString],
                   <<"1","1","1","1","2","2","2","2","3","3","3","3">> >> } }

Fresh ==
    /\ pc = "init" /\ exit_code = -1
    /\ i = 0 /\ j = 0 /\ route_table = None /\ existing_destinations = {}
    /\ rule_groups = <<>> /\ success_count = 0 /\ routes_success_count = 0
    /\ calls = <<>> /\ console = <<>>

Init ==
    /\ Fresh
    /\ run = 1 /\ previous = <<>>
    /\ firewall_rule = FA /\ suricata_rule = <<>>
    /\ tool \in {"route", "firewall"}
    /\ \/ /\ credentials = TRUE /\ config_file = "ok"
          /\ \/ /\ tool = "route"
                /\ args \in { Args(d, v, FALSE) : d, v \in BOOLEAN }
                /\ config \in RouteConfigurations
                /\ remote \in RouteRemotes
             \/ /\ tool = "firewall"
                /\ args \in { Args(d, v, FALSE) : d, v \in BOOLEAN }
                         \cup { Args(FALSE, FALSE, TRUE) }
                /\ config \in FirewallConfigurations
                /\ remote \in FirewallRemotes
       \/ /\ credentials \in BOOLEAN /\ config_file \in {"ok", "missing", "malformed"}
          /\ ~(credentials /\ config_file = "ok")
          /\ args = Args(FALSE, FALSE, FALSE)
          /\ config = <<>>
          /\ remote = Remote(NoRouteTables, NoPolicies, NoRuleGroups, None)
    /\ remote_at_start = remote

\* The run went through its whole apply phase, to the summary.
Applied ==
    /\ pc = "exit"
    /\ \E k \in 1..Len(console) : console[k].text = "summary"

\* A run that went through its whole apply phase with no call refused, except
\* as a duplicate, and every route table found.
Clean ==
    /\ Applied
    /\ \A k \in 1..Len(calls) : calls[k].result \notin {"ClientError"}
    /\ \A k \in 1..Len(calls) :
           calls[k].result # "NotFound" \/ calls[k].op # "get_route_table"

\* The same command is run again after a run that reached its Summary, against
\* what that run left.
Rerun ==
    /\ Applied /\ run < MaxRuns
    /\ ~args.dry_run /\ ~args.validate_only /\ ~args.list_policies
    /\ run' = run + 1
    /\ previous' = <<[exit_code |-> exit_code, clean |-> Clean]>>
    /\ remote_at_start' = remote
    /\ pc' = "init" /\ exit_code' = -1
    /\ i' = 0 /\ j' = 0 /\ route_table' = None /\ existing_destinations' = {}
    /\ rule_groups' = <<>> /\ success_count' = 0 /\ routes_success_count' = 0
    /\ calls' = <<>> /\ console' = <<>>
    /\ UNCHANGED <<tool, args, credentials, config_file, config, remote,
                   firewall_rule, suricata_rule>>

Next ==
    \/ RouteManager__init__
    \/ RouteManager_load_configuration
    \/ RouteManager_validate_table
    \/ RouteManager_validate_raise
    \/ RouteManager_validate_passed
    \/ ec2_route_table_deleted
    \/ update_route_table_not_found
    \/ update_route_table_raise
    \/ update_route_table_found
    \/ update_route_table_exists
    \/ update_route_table_would_create
    \/ update_route_table_create
    \/ update_route_table_return
    \/ route_main_summary
    \/ FirewallManager__init__
    \/ firewall_main_list_policies
    \/ firewall_main_load_and_validate
    \/ apply_configuration_dry_run
    \/ apply_configuration_live
    \/ apply_configuration_raise
    \/ firewall_main_applied
    \/ Rerun

Spec == Init /\ [][Next]_vars

(***************************************************************************)
(* The rules _convert_rule_to_suricata is applied to, one at a time.       *)
(***************************************************************************)
SuricataNames == { <<"a">>, <<"b","l","o","c","k","-","x">> }

SuricataActions ==
    { <<"D","R","O","P">>, <<"d","r","o","p">>, <<"A","L","L","O","W">>,
    <<"A","l","e","r","t">>, <<"R","E","J","E","C","T">> }

SuricataProtocols ==
    { <<"T","C","P">>, <<"u","d","p">>, <<"A","n","y">>, <<"I","C","M","P">> }

SuricataSources == { <<"A","N","Y">>, <<"a","n","y">>, <<"A","n","y">> } \cup {Net1}

BlockedHost == <<"2","0","3",".","0",".","1","1","3",".","5","/","3","2">>

SuricataDestinations == { <<"A","N","Y">>, <<"A","n","y">> } \cup {BlockedHost}

SuricataDescriptions == {None, <<>>, <<"w","e","b">>}

SuricataPriorities == {10, 0, -5, 123}

SuricataRules ==
    { FirewallRule(n, p, a, s, d, t, m) :
         n \in SuricataNames, p \in SuricataPriorities, a \in SuricataActions,
         s \in SuricataSources, d \in SuricataDestinations,
         t \in SuricataProtocols, m \in SuricataDescriptions }

InitSuricata ==
    /\ Fresh
    /\ run = 1 /\ previous = <<>>
    /\ tool = "firewall" /\ args = Args(FALSE, FALSE, FALSE)
    /\ credentials = TRUE /\ config_file = "ok" /\ config = <<>>
    /\ remote = Remote(NoRouteTables, NoPolicies, NoRuleGroups, None)
    /\ remote_at_start = remote
    /\ firewall_rule \in SuricataRules
    /\ suricata_rule = <<>>

\* suricata_rule = self._convert_rule_to_suricata(rule)
FirewallManager_convert_rule_to_suricata ==
    /\ suricata_rule = <<>>
    /\ suricata_rule' = _convert_rule_to_suricata(firewall_rule)
    /\ UNCHANGED <<tool, args, credentials, config_file, config, remote, pc,
                   exit_code, locals, calls, console, run, remote_at_start,
                   previous, firewall_rule>>

NextSuricata == FirewallManager_convert_rule_to_suricata

SpecSuricata == InitSuricata /\ [][NextSuricata]_vars

(***************************************************************************)
(* What the claims speak of.                                               *)
(***************************************************************************)
IsMutating(c) == c.op \in MutatingOps

IsFetch(c) == c.op \in {"get_route_table", "describe_firewall_policy"}

IsFound(c) == IsFetch(c) /\ c.result = "found"

IsRefused(c) == IsMutating(c) /\ c.result # "ok"

\* The route tool's validation fetches each table once before the apply phase.
ApplyCalls ==
    IF tool = "route" THEN SubSeq(calls, Len(config) + 1, Len(calls)) ELSE calls

ApplyFetches == SelectSeq(ApplyCalls, IsFetch)

GroupName(g) == IF tool = "route" THEN g.table_id ELSE g.name

HasLine(text) == \E k \in 1..Len(console) : console[k].text = text

\* The Summary line reports `count` groups out of all those of the document.
Reports(count) ==
    \A k \in 1..Len(console) :
        console[k].text = "summary" => console[k].about = <<count, Len(config)>>

\* What a live run reports when the provider refuses none of its calls: every
\* policy; every route table the fetch finds.
LiveCount ==
    IF tool = "route" THEN Len(SelectSeq(ApplyFetches, IsFound)) ELSE Len(config)

(***************************************************************************)
(* C1: a dry run issues no mutating call, still fetches every group, and   *)
(* reports the counts of a live run in which no mutating call is refused.  *)
(***************************************************************************)
C1_DryRunMutatesNothing ==
    /\ args.dry_run => \A k \in 1..Len(calls) : ~IsMutating(calls[k])
    /\ (Applied /\ args.dry_run) =>
          /\ Len(ApplyFetches) = Len(config)
          /\ \A k \in 1..Len(config) : ApplyFetches[k].params = GroupName(config[k])
          /\ Reports(LiveCount)
    /\ (Applied /\ ~args.dry_run /\ \A k \in 1..Len(calls) : ~IsRefused(calls[k])) =>
          Reports(LiveCount)

C1_Witness ==
    /\ tool = "route" /\ args.dry_run /\ Applied
    /\ Len(config) = 2 /\ Len(ApplyFetches) = 2
    /\ HasLine("would_create_route")
    /\ Reports(2)

(***************************************************************************)
(* C2: a document with an invalid action, protocol or destination, or with *)
(* a route table the provider does not have, ends the run with status 1    *)
(* before any mutating call, whichever group holds the offence.            *)
(***************************************************************************)
ValidActionSpellings ==
    { <<"D","R","O","P">>, <<"d","r","o","p">>, <<"a","l","l","o","w">>,
      <<"A","l","e","r","t">> }

ValidProtocolSpellings ==
    { <<"T","C","P">>, <<"U","D","P">>, <<"A","n","y">>, <<"i","c","m","p">> }

ValidCidrs == {Net1, Net2, DefaultCidr}

InvalidDocument ==
    IF tool = "firewall"
    THEN \E p \in 1..Len(config) : \E r \in 1..Len(config[p].rules) :
            \/ config[p].rules[r].action \notin ValidActionSpellings
            \/ config[p].rules[r].protocol \notin ValidProtocolSpellings
    ELSE \E t \in 1..Len(config) :
            \/ remote_at_start.route_tables[config[t].table_id] = <<>>
            \/ \E r \in 1..Len(config[t].routes) :
                   config[t].routes[r].destination \notin ValidCidrs

C2_ValidationAllOrNothing ==
    (InvalidDocument /\ ~args.list_policies) =>
        /\ \A k \in 1..Len(calls) : ~IsMutating(calls[k])
        /\ pc \notin {"apply", "routes"}
        /\ pc = "exit" => exit_code = 1

C2_Witness ==
    /\ tool = "route" /\ ~args.dry_run /\ ~args.validate_only
    /\ config = <<RouteTable(Rtb2, <<R4, R5>>), RouteTable(Rtb1, <<R1, RX>>)>>
    /\ remote.route_tables[Rtb1] = <<{}>> /\ remote.route_tables[Rtb2] = <<{}>>
    /\ pc = "exit" /\ exit_code = 1
    /\ Len(calls) = 2

(***************************************************************************)
(* C3: a desired route whose destination is in the fetched existing set    *)
(* gets no create-route call, in live and in dry-run mode; it is reported  *)
(* as already existing, and the table is counted as succeeded.             *)
(***************************************************************************)
C3_ExistingRouteSkipped ==
    [][ /\ (/\ pc = "routes" /\ j <= Len(config[i].routes)
            /\ config[i].routes[j].destination \in existing_destinations)
           => /\ calls' = calls
              /\ remote' = remote
              /\ console' = Append(console,
                     Line("route_already_exists", config[i].routes[j].destination))
              /\ j' = j + 1 /\ pc' = "routes"
        /\ (pc = "routes" /\ pc' # "routes")
           => /\ pc' = "apply" /\ i' = i + 1
              /\ success_count' = success_count + 1 ]_vars

C3_Witness ==
    /\ tool = "route" /\ ~args.dry_run /\ Applied
    /\ config = <<RouteTable(Rtb1, <<R1, R2>>)>>
    /\ remote_at_start.route_tables[Rtb1] = <<{RemoteRoute(Net1, "GatewayId", IgwZ)}>>
    /\ remote = remote_at_start
    /\ Len(calls) = 2
    /\ console[Len(console) - 2] = Line("processed_routes", 0)
    /\ Reports(1)

(***************************************************************************)
(* C4: a second live run of the same document, against what the first run  *)
(* left, creates nothing, leaves the provider's state as it found it and   *)
(* reports every route as already existing, every policy as updated and    *)
(* every group as succeeded -- when neither run had a call refused for a   *)
(* reason other than that the resource exists, and every table was found.  *)
(***************************************************************************)
CountLines(text) ==
    LET Is(l) == l.text = text IN Len(SelectSeq(console, Is))

TotalRoutes ==
    Cardinality(UNION { { <<t, r>> : r \in 1..Len(config[t].routes) } :
                            t \in 1..Len(config) })

\* What the second run did to the provider's state: nothing (a table someone
\* else removed is not the run's doing).
RemoteAsAtStart ==
    /\ remote.policies = remote_at_start.policies
    /\ remote.rule_groups = remote_at_start.rule_groups
    /\ \A t \in TableIds :
          remote.route_tables[t] # <<>> =>
              remote.route_tables[t] = remote_at_start.route_tables[t]

SecondRunOutcome ==
    /\ \A k \in 1..Len(calls) :
          calls[k].op \in {"create_route", "create_rule_group", "create_firewall_policy"}
              => calls[k].result # "ok"
    /\ RemoteAsAtStart
    /\ IF tool = "route"
       THEN /\ CountLines("route_already_exists") = TotalRoutes
            /\ ~HasLine("created_route") /\ ~HasLine("failed_to_create_route")
       ELSE /\ CountLines("updated_policy") = Len(config)
            /\ ~HasLine("created_policy") /\ ~HasLine("failed_policy")
    /\ Reports(Len(config))

C5_RefusedRouteFailsItsTable ==
    (/\ tool = "route" /\ ~args.dry_run /\ Applied
     /\ \E k \in 1..Len(calls) :
           calls[k].op = "create_route" /\ calls[k].result = "ClientError")
    => \A k \in 1..Len(console) :
           console[k].text = "summary" => console[k].about[1] < console[k].about[2]

(***************************************************************************)
(* C6: apply_configuration takes the policies in document order, goes on   *)
(* after a refused create or update, and returns success exactly when as   *)
(* many policies succeeded as the document has; none gives success, 0/0.   *)
(***************************************************************************)
IsPolicyCall(c) == c.op \in {"create_firewall_policy", "update_firewall_policy"}

IsPolicyStored(c) == IsPolicyCall(c) /\ c.result = "ok"

PolicyCalls == SelectSeq(calls, IsPolicyCall)

\* The policies whose create or update succeeded (a dry run counts each).
PoliciesSucceeded ==
    IF args.dry_run THEN Len(ApplyFetches) ELSE Len(SelectSeq(calls, IsPolicyStored))

C6_EveryPolicyProcessed ==
    (tool = "firewall" /\ HasLine("applying")) =>
        /\ \A k \in 1..Len(ApplyFetches) : ApplyFetches[k].params = config[k].name
        /\ ~args.dry_run =>
              \A k \in 1..Len(PolicyCalls) :
                  PolicyCalls[k].params.FirewallPolicyName = config[k].name
        /\ pc = "apply" =>
              /\ Len(ApplyFetches) = i - 1
              /\ ~args.dry_run => Len(PolicyCalls) = i - 1
        /\ (pc = "exit" /\ ~Applied) =>
              calls[Len(calls)] = Call("describe_firewall_policy",
                                       config[Len(ApplyFetches)].name, "ClientError")
        /\ Applied =>
              /\ Len(ApplyFetches) = Len(config)
              /\ ~args.dry_run => Len(PolicyCalls) = Len(config)
              /\ Reports(PoliciesSucceeded)
              /\ HasLine("failed_to_apply") <=> PoliciesSucceeded # Len(config)
              /\ exit_code = 0 <=> PoliciesSucceeded = Len(config)
              /\ Len(config) = 0 => (Reports(0) /\ exit_code = 0)

C6_Witness ==
    /\ tool = "firewall" /\ ~args.dry_run /\ Applied
    /\ Len(config) = 2
    /\ PolicyCalls[1].result = "ClientError" /\ PolicyCalls[2].result = "ok"
    /\ Reports(1) /\ HasLine("failed_to_apply")

(***************************************************************************)
(* C7: the exit status is 1 after missing credentials, a load failure, a   *)
(* validation failure, a fetch error nothing catches, and, in the firewall *)
(* tool, after an apply in which a policy failed; it is 0 otherwise -- the *)
(* route tool ends with 0 whatever its apply phase met.                    *)
(***************************************************************************)
FetchRaised ==
    /\ calls # <<>>
    /\ IsFetch(calls[Len(calls)]) /\ calls[Len(calls)].result = "ClientError"

ExpectedExitCode ==
    IF ~credentials THEN 1
    ELSE IF args.list_policies THEN 0
    ELSE IF config_file # "ok" THEN 1
    ELSE IF InvalidDocument THEN 1
    ELSE IF FetchRaised THEN 1
    ELSE IF args.validate_only THEN 0
    ELSE IF tool = "route" THEN 0
    ELSE IF PoliciesSucceeded = Len(config) THEN 0
    ELSE 1

C7_ExitCode == pc = "exit" => exit_code = ExpectedExitCode

C7_Witness ==
    /\ tool = "firewall" /\ ~args.dry_run /\ Applied
    /\ Len(config) = 2 /\ Reports(1)
    /\ PolicyCalls[2].result = "ClientError"
    /\ exit_code = 1

\* C7 as the specification words it: 1 after the three failures, 0 after any Summary.
C7_ApplyFailuresKeepExitZero ==
    pc = "exit" =>
        /\ (~credentials \/ (~args.list_policies /\ (config_file # "ok" \/ InvalidDocument)))
              => exit_code = 1
        /\ Applied => exit_code = 0

(***************************************************************************)
(* C8: the rule text is                                                    *)
(*   <action> <protocol> <source> any -> <destination> any                 *)
(*       (msg:"<description-or-name>"; sid:<priority>;)                    *)
(* with drop for DROP in any case and alert for every other action, the    *)
(* protocol in lower case, any for ANY in any case, the description when   *)
(* it is set and not empty and the name otherwise, and the priority.       *)
(***************************************************************************)
ExpectedAction(action) ==
    IF action \in { <<"D","R","O","P">>, <<"d","r","o","p">> }
    THEN <<"d","r","o","p">> ELSE <<"a","l","e","r","t">>

ExpectedProtocol(protocol) ==
    CASE protocol = <<"T","C","P">> -> <<"t","c","p">>
      [] protocol = <<"u","d","p">> -> <<"u","d","p">>
      [] protocol = <<"A","n","y">> -> <<"a","n","y">>
      [] protocol = <<"I","C","M","P">> -> <<"i","c","m","p">>

ExpectedAddress(address) ==
    IF address \in { <<"A","N","Y">>, <<"a","n","y">>, <<"A","n","y">> }
    THEN <<"a","n","y">> ELSE address

ExpectedMsg(rule) ==
    IF rule.description = <<"w","e","b">> THEN <<"w","e","b">> ELSE rule.name

ExpectedSid(priority) ==
    CASE priority = 10 -> <<"1","0">>
      [] priority = 0 -> <<"0">>
      [] priority = -5 -> <<"-","5">>
      [] priority = 123 -> <<"1","2","3">>

BlockX ==
    FirewallRule(<<"b","l","o","c","k","-","x">>, 10, <<"D","R","O","P">>, <<"A","N","Y">>, BlockedHost,
                 <<"T","C","P">>, None)

\* drop tcp any any -> 203.0.113.5/32 any (msg:"block-x"; sid:10;)
BlockXText ==
    <<"d","r","o","p"," ","t","c","p"," ","a","n","y"," ","a","n","y",
    " ","-",">"," ","2","0","3",".","0",".","1","1","3",".","5","/","3","2",
    " ","a","n","y",
    " ","(","m","s","g",":","\"","b","l","o","c","k","-","x","\"",";",
    " ","s","i","d",":","1","0",";",")">>

C8_SuricataText ==
    suricata_rule # <<>> =>
        /\ suricata_rule =
              ExpectedAction(firewall_rule.action) \o <<" ">>
                \o ExpectedProtocol(firewall_rule.protocol) \o <<" ">>
                \o ExpectedAddress(firewall_rule.source) \o <<" ","a","n","y"," ","-",">"," ">>
                \o ExpectedAddress(firewall_rule.destination)
                \o <<" ","a","n","y"," ","(","m","s","g",":","\"">>
                \o ExpectedMsg(firewall_rule)
                \o <<"\"",";"," ","s","i","d",":">>
                \o ExpectedSid(firewall_rule.priority) \o <<";",")">>
        /\ firewall_rule = BlockX => suricata_rule = BlockXText

C8_Witness ==
    /\ firewall_rule = BlockX
    /\ suricata_rule = BlockXText

(***************************************************************************)
(* C9: each create-route call carries the table id, the destination and    *)
(* one target parameter, which the prefix of the target alone names; the   *)
(* route's target_type plays no part.                                      *)
(***************************************************************************)
TargetParamOf(target) ==
    CASE target = IgwA -> "GatewayId"
      [] target = NatB -> "NatGatewayId"
      [] target = PcxC -> "VpcPeeringConnectionId"
      [] target = EniD -> "NetworkInterfaceId"
      [] target = VgwE -> "GatewayId"

C9_CreateRouteParameters ==
    [][ (Len(calls') > Len(calls) /\ calls'[Len(calls')].op = "create_route") =>
           LET route == config[i].routes[j]
               params == calls'[Len(calls')].params
           IN  /\ pc = "routes"
               /\ Len(calls') = Len(calls) + 1
               /\ DOMAIN params = {"RouteTableId", "DestinationCidrBlock",
                                   TargetParamOf(route.target)}
               /\ params.RouteTableId = config[i].table_id
               /\ params.DestinationCidrBlock = route.destination
               /\ params[TargetParamOf(route.target)] = route.target ]_vars

C9_Witness ==
    /\ tool = "route" /\ Applied
    /\ config = <<RouteTable(Rtb2, <<R4, R5>>), RouteTable(Rtb1, <<R1, R2>>)>>
    /\ \E k \in 1..Len(calls) :
          /\ calls[k].op = "create_route"
          /\ calls[k].params = [RouteTableId |-> Rtb2, DestinationCidrBlock |-> Net2,
                                NetworkInterfaceId |-> EniD]
    /\ \E k \in 1..Len(calls) :
          /\ calls[k].op = "create_route"
          /\ calls[k].params = [RouteTableId |-> Rtb1, DestinationCidrBlock |-> Net1,
                                NatGatewayId |-> NatB]

(***************************************************************************)
(* C10: a route table the apply-time fetch does not find gets no           *)
(* create-route call, is not created and is not counted as succeeded; the  *)
(* tables after it are still processed.                                    *)
(***************************************************************************)
IsNotFound(c) == c.op = "get_route_table" /\ c.result = "NotFound"

C10_MissingTableFailsAlone ==
    tool = "route" =>
        /\ \A k \in 1..Len(ApplyCalls) :
              (IsNotFound(ApplyCalls[k]) /\ k < Len(ApplyCalls))
                  => IsFetch(ApplyCalls[k + 1])
        /\ \A k \in 1..Len(calls) :
              calls[k].op = "create_route" =>
                  remote_at_start.route_tables[calls[k].params.RouteTableId] # <<>>
        /\ \A t \in TableIds :
              remote_at_start.route_tables[t] = <<>> => remote.route_tables[t] = <<>>
        /\ pc = "apply" =>
              /\ Len(ApplyFetches) = i - 1
              /\ success_count = Len(SelectSeq(ApplyFetches, IsFound))
        /\ Applied =>
              /\ Len(ApplyFetches) = Len(config)
              /\ \A k \in 1..Len(config) : ApplyFetches[k].params = config[k].table_id
              /\ Reports(Len(SelectSeq(ApplyFetches, IsFound)))

C10_Witness ==
    /\ tool = "route" /\ ~args.dry_run /\ Applied
    /\ config = <<RouteTable(Rtb2, <<R4, R5>>), RouteTable(Rtb1, <<R1, R2>>)>>
    /\ IsNotFound(ApplyFetches[1]) /\ IsFound(ApplyFetches[2])
    /\ \E k \in 1..Len(calls) : calls[k].op = "create_route" /\ calls[k].result = "ok"
    /\ \A k \in 1..Len(calls) :
          calls[k].op = "create_route" => calls[k].params.RouteTableId = Rtb1
    /\ Reports(1)

(***************************************************************************)
(* C11: in live mode each policy gets, in this order, the fetch of the     *)
(* policy by its name, one create_rule_group per rule in rule order, named *)
(* <rule-name>-rule-group and holding that rule alone, and then one policy *)
(* call that references all those groups: create_firewall_policy after a   *)
(* not-found fetch, update_firewall_policy otherwise.                      *)
(***************************************************************************)
RuleGroupSuffix == <<"-","r","u","l","e","-","g","r","o","u","p">>

\* The calls one step added to the log.
NewCalls == SubSeq(calls', Len(calls) + 1, Len(calls'))

C11_PolicyCallOrder ==
    [][ (/\ tool = "firewall" /\ ~args.dry_run
         /\ pc = "apply" /\ pc' = "apply" /\ i' = i + 1) =>
           LET name == config[i].name
               rules == config[i].rules
               last == NewCalls[Len(NewCalls)]
               refs == last.params.FirewallPolicy.StatefulRuleGroupReferences
           IN  /\ Len(NewCalls) = Len(rules) + 2
               /\ NewCalls[1].op = "describe_firewall_policy"
               /\ NewCalls[1].params = name
               /\ NewCalls[1].result =
                     IF remote.policies[name] = <<>> THEN "NotFound" ELSE "found"
               /\ \A k \in 1..Len(rules) :
                     /\ NewCalls[k + 1].op = "create_rule_group"
                     /\ NewCalls[k + 1].params.RuleGroupName =
                           rules[k].name \o RuleGroupSuffix
                     /\ NewCalls[k + 1].params.RulesString =
                           _convert_rule_to_suricata(rules[k])
               /\ last.op = IF NewCalls[1].result = "NotFound"
                            THEN "create_firewall_policy"
                            ELSE "update_firewall_policy"
               /\ last.params.FirewallPolicyName = name
               /\ Len(refs) = Len(rules)
               /\ \A k \in 1..Len(rules) :
                     refs[k].ResourceArn[7] = rules[k].name \o RuleGroupSuffix ]_vars

C11_Witness ==
    /\ tool = "firewall" /\ ~args.dry_run /\ Applied /\ run = 1
    /\ config = <<FirewallPolicy(PolP, None, <<FA, FB>>)>>
    /\ Len(calls) = 4
    /\ calls[1] = Call("describe_firewall_policy", PolP, "found")
    /\ calls[2].op = "create_rule_group" /\ calls[2].result = "Duplicate"
    /\ calls[3].op = "create_rule_group" /\ calls[3].result = "ok"
    /\ calls[4].op = "update_firewall_policy" /\ calls[4].result = "ok"

(***************************************************************************)
(* C12: after a live run of the route tool in which every table of the     *)
(* document is found and still there, and no create-route call is refused  *)
(* but as already existing, every desired destination is in its table's    *)
(* remote route set.                                                       *)
(***************************************************************************)
HasDestination(table_id, destination) ==
    /\ remote.route_tables[table_id] # <<>>
    /\ \E r \in remote.route_tables[table_id][1] :
          r.destination_cidr_block = destination

NoRouteRefused ==
    \A k \in 1..Len(calls) :
        calls[k].op = "create_route" => calls[k].result \in {"ok", "RouteAlreadyExists"}

EveryTableThere ==
    /\ \A k \in 1..Len(ApplyFetches) : IsFound(ApplyFetches[k])
    /\ \A t \in 1..Len(config) : remote.route_tables[config[t].table_id] # <<>>

C12_DesiredRoutesPresent ==
    (/\ tool = "route" /\ ~args.dry_run /\ Applied
     /\ EveryTableThere /\ NoRouteRefused)
    => \A t \in 1..Len(config) : \A r \in 1..Len(config[t].routes) :
           HasDestination(config[t].table_id, config[t].routes[r].destination)

C12_Witness ==
    /\ tool = "route" /\ ~args.dry_run /\ Applied /\ run = 1
    /\ config = <<RouteTable(Rtb1, <<R3, R1>>)>>
    /\ remote_at_start.route_tables[Rtb1] = <<{}>>
    /\ EveryTableThere /\ NoRouteRefused
    /\ HasDestination(Rtb1, DefaultCidr) /\ HasDestination(Rtb1, Net1)
    /\ Len(calls) = 4

(***************************************************************************)
(* C13: the route tool only adds routes.  It never calls delete_route; a   *)
(* table that is still there holds every route it held when the run began, *)
(* with its target, and holds nothing new but what an accepted             *)
(* create-route call of the run put there; a table the document does not   *)
(* name is as it was; a route once created stays when a later route or     *)
(* table fails.                                                            *)
(***************************************************************************)
NamedTables == { config[t].table_id : t \in 1..Len(config) }

\* The route an accepted create-route call puts into its table.
RouteOfCall(c) ==
    LET attr == CHOOSE a \in DOMAIN c.params : a \in TargetParams
    IN  RemoteRoute(c.params.DestinationCidrBlock, attr, c.params[attr])

CreatedRoutes(table_id) ==
    { RouteOfCall(calls[k]) :
        k \in { m \in 1..Len(calls) :
                  /\ calls[m].op = "create_route" /\ calls[m].result = "ok"
                  /\ calls[m].params.RouteTableId = table_id } }

C13_RoutesOnlyAdded ==
    tool = "route" =>
        /\ \A k \in 1..Len(calls) : calls[k].op # "delete_route"
        /\ remote.policies = remote_at_start.policies
        /\ remote.rule_groups = remote_at_start.rule_groups
        /\ \A t \in TableIds :
              remote.route_tables[t] # <<>> =>
                 /\ remote_at_start.route_tables[t] # <<>>
                 /\ remote_at_start.route_tables[t][1] \subseteq remote.route_tables[t][1]
                 /\ remote.route_tables[t][1] =
                       remote_at_start.route_tables[t][1] \cup CreatedRoutes(t)
                 /\ t \notin NamedTables =>
                       remote.route_tables[t] = remote_at_start.route_tables[t]

C13_Witness ==
    /\ tool = "route" /\ ~args.dry_run /\ Applied /\ run = 1
    /\ config = <<RouteTable(Rtb2, <<R4, R5>>), RouteTable(Rtb1, <<R3, R1>>)>>
    /\ remote_at_start.route_tables[Rtb1] =
          <<{ RemoteRoute(Net1, "NatGatewayId", NatB),
              RemoteRoute(DefaultCidr, "GatewayId", IgwA) }>>
    /\ remote.route_tables[Rtb1] = remote_at_start.route_tables[Rtb1]
    /\ remote.route_tables[Rtb2] = <<{RemoteRoute(Net2, "NetworkInterfaceId", EniD)}>>
    /\ \E k, m \in 1..Len(calls) :
          /\ k < m
          /\ calls[k].op = "create_route" /\ calls[k].result = "ok"
          /\ calls[m].op = "create_route" /\ calls[m].result = "ClientError"

(***************************************************************************)
(* C14: 0.0.0.0/0 is never in the existing-destination set, so a desired   *)
(* route to 0.0.0.0/0 is never skipped: a live run sends create-route for  *)
(* it and a dry run prints the would-create line, also when the table has  *)
(* a 0.0.0.0/0 route, and the provider's already-exists answer counts the  *)
(* route as a success.                                                     *)
(***************************************************************************)
AtDefaultRoute ==
    /\ tool = "route" /\ pc = "routes" /\ j <= Len(config[i].routes)
    /\ config[i].routes[j].destination = <<"0",".","0",".","0",".","0","/","0">>

C15_RuleGroupOutcomeIgnored ==
    [][ (/\ tool = "firewall" /\ ~args.dry_run
         /\ pc = "apply" /\ pc' = "apply" /\ i' = i + 1) =>
           LET rules == config[i].rules
               policy_call == NewCalls[Len(NewCalls)]
               refs == policy_call.params.FirewallPolicy.StatefulRuleGroupReferences
               account == IF remote.account = None
                          THEN <<"1","2","3","4","5","6","7","8","9","0","1","2">>
                          ELSE remote.account
           IN  /\ IsPolicyCall(policy_call)
               /\ \A k \in 1..(Len(NewCalls) - 1) : ~IsPolicyCall(NewCalls[k])
               /\ refs = [k \in 1..Len(rules) |->
                            [ResourceArn |->
                               <<"arn", "aws", "network-firewall", "ap-southeast-4",
                                 account, "stateful-rulegroup",
                                 rules[k].name \o RuleGroupSuffix>>]]
               /\ success_count' = IF policy_call.result = "ok"
                                   THEN success_count + 1 ELSE success_count
               /\ console'[Len(console')].text =
                     IF policy_call.result # "ok" THEN "failed_policy"
                     ELSE IF policy_call.op = "update_firewall_policy"
                     THEN "updated_policy" ELSE "created_policy" ]_vars

C15_Witness ==
    /\ tool = "firewall" /\ ~args.dry_run /\ Applied /\ run = 1
    /\ config = <<FirewallPolicy(PolQ, <<"d">>, <<FB>>)>>
    /\ Len(calls) = 3
    /\ calls[1] = Call("describe_firewall_policy", PolQ, "NotFound")
    /\ calls[2].op = "create_rule_group" /\ calls[2].result = "ClientError"
    /\ calls[3].op = "create_firewall_policy" /\ calls[3].result = "ok"
    /\ Len(calls[3].params.FirewallPolicy.StatefulRuleGroupReferences) = 1
    /\ Reports(1) /\ exit_code = 0

=============================================================================
